---- MODULE Spec2Model ----
(***************************************************************************)
(* Buffer marshalling of the eos Python bindings                           *)
(* (python/generate-python-bindings.cpp): the buffer-protocol adapters of  *)
(* cv::Vec2f, cv::Vec4f and cv::Mat.                                       *)
(*                                                                         *)
(* Foreign (Python-owned) memory is an array of 4-byte cells; addresses    *)
(* and strides are in bytes.  A native object is either a fixed vector     *)
(* (its own val[] storage) or a cv::Mat header (a pointer into foreign     *)
(* memory or into storage owned by the native library).                    *)
(***************************************************************************)
EXTENDS Integers, Sequences, FiniteSets, TLC

VARIABLES mem,     \* foreign memory: cell index -> 32-bit word
          buf,     \* the Python buffer object the caller holds (py::buffer b)
          obj,     \* the native object the last constructor call initialised
          op,      \* the binding that ran last
          err,     \* what() of the std::runtime_error it threw, or NoErr
          out,     \* the py::buffer_info a def_buffer call returned, or NoDesc
          log,     \* the observable effects of the last call, in program order
          cout,    \* the lines written to std::cout so far
          writes,  \* number of writes the caller made to foreign memory
          snap,    \* the native object's elements when its constructor returned
          ndebug,  \* whether the module was built with NDEBUG (assert compiled out)
          args,    \* the arguments of the call to a fitting binding
          native,  \* what that call handed to the native library, or how it ended
          reads    \* the indices at which that call read landmark_ids, in order

fitvars == <<ndebug, args, native, reads>>

vars == <<mem, buf, obj, op, err, out, log, cout, writes, snap, fitvars>>

(***************************************************************************)
(* Bounds of the model.                                                    *)
(***************************************************************************)
MemCells  == 12   \* 4-byte cells of foreign memory
MaxDim    == 4    \* largest extent of a buffer along one axis
MaxWrites == 2    \* writes of the caller to foreign memory in one run
MaxCout   == 2    \* lines std::cout holds before the run stops exporting

(***************************************************************************)
(* Element formats and OpenCV type codes.                                  *)
(***************************************************************************)
FloatFormat  == "f"      \* py::format_descriptor<float>::format()
DoubleFormat == "d"      \* py::format_descriptor<double>::format()
IntFormat    == "i"      \* some other struct-style format (int32)
Formats      == {FloatFormat, DoubleFormat, IntFormat}

ItemSize(fmt) == IF fmt = DoubleFormat THEN 8 ELSE 4
SizeofFloat   == 4

CV_8U  == 0
CV_32F == 5
CV_64F == 6
\* CV_MAKETYPE(depth, cn): depth + ((cn - 1) << 3)
CV_MAKETYPE(depth, cn) == depth + (cn - 1) * 8
CV_32FC1 == CV_MAKETYPE(CV_32F, 1)
CV_64FC1 == CV_MAKETYPE(CV_64F, 1)
Depth(type)    == type % 8
Channels(type) == (type \div 8) + 1
DepthSize(d)   == IF d = CV_64F THEN 8 ELSE IF d = CV_32F THEN 4 ELSE 1
ElemSize(type) == DepthSize(Depth(type)) * Channels(type)

(***************************************************************************)
(* Values that stand for "nothing".                                        *)
(***************************************************************************)
NoObj  == [kind |-> "none"]
NoBuf  == [kind |-> "nobuffer"]
NoDesc == [kind |-> "nodesc"]
NoErr  == "none"

(***************************************************************************)
(* Reading foreign memory.  A read outside the allocation is undefined     *)
(* behaviour: it yields junk, a value the caller of Rd chooses.            *)
(***************************************************************************)
Junk == {0, MemCells + 1}

Rd(m, addr, junk) ==
    LET c == addr \div 4
    IN  IF c \in DOMAIN m THEN m[c] ELSE junk

\* one element of itemsize isz at byte address addr: a float is one cell,
\* a double the pair of its two cells
ElemAt(m, addr, isz, junk) ==
    IF isz = 8 THEN <<Rd(m, addr, junk), Rd(m, addr + 4, junk)>>
    ELSE Rd(m, addr, junk)

(***************************************************************************)
(* The buffers a caller can hand to a constructor.  b.request() returns    *)
(* the descriptor: base pointer, format, ndim, shape and strides (bytes).  *)
(***************************************************************************)
Buffer(p, f, nd, sh, st) ==
    [kind |-> "buffer", ptr |-> p, format |-> f, itemsize |-> ItemSize(f),
     ndim |-> nd, shape |-> sh, strides |-> st]

Min0(x) == IF x < 0 THEN x ELSE 0
Max0(x) == IF x > 0 THEN x ELSE 0

RECURSIVE LowOff(_, _, _)
LowOff(sh, st, i) ==
    IF i > Len(sh) THEN 0 ELSE Min0((sh[i] - 1) * st[i]) + LowOff(sh, st, i + 1)

RECURSIVE HighOff(_, _, _)
HighOff(sh, st, i) ==
    IF i > Len(sh) THEN 0 ELSE Max0((sh[i] - 1) * st[i]) + HighOff(sh, st, i + 1)

RECURSIVE Product(_, _)
Product(sh, i) == IF i > Len(sh) THEN 1 ELSE sh[i] * Product(sh, i + 1)

\* every logical element of the buffer lies inside foreign memory
InMemory(b) ==
    \/ Product(b.shape, 1) = 0
    \/ /\ b.ptr + LowOff(b.shape, b.strides, 1) >= 0
       /\ b.ptr + HighOff(b.shape, b.strides, 1) + b.itemsize <= 4 * MemCells

StrideFactors == {-1, 0, 1, 2}
\* the start of memory, a little inside it, and its last cell
BasePtrs      == {0, 4 * (MaxDim - 1), 4 * (MemCells - 1)}

\* one-dimensional arrays and views of them: a[::-1], broadcasts, a[::2]
Rank1Buffers ==
    { b \in { Buffer(p, f, 1, <<n>>, <<k * ItemSize(f)>>) :
                p \in BasePtrs, f \in Formats, n \in 0..MaxDim, k \in StrideFactors } :
        InMemory(b) }

\* the strides of an r x c array: C order, Fortran order, rows padded by one
\* element (a column slice of a wider array), rows broadcast
Rank2Strides(r, c, isz) ==
    { <<c * isz, isz>>, <<isz, r * isz>>, <<(c + 1) * isz, isz>>, <<0, isz>> }

Rank2Buffers ==
    { b \in UNION { { Buffer(0, f, 2, <<r, c>>, st) : st \in Rank2Strides(r, c, ItemSize(f)) } :
                    f \in Formats, r \in 0..MaxDim, c \in 0..MaxDim } :
        InMemory(b) }

\* scalars (rank 0) and rank-3 arrays
OtherRankBuffers ==
    { Buffer(0, f, 0, <<>>, <<>>) : f \in Formats }
    \cup { Buffer(0, f, 3, <<1, 1, n>>, <<n * ItemSize(f), n * ItemSize(f), ItemSize(f)>>) :
             f \in Formats, n \in {1, 2} }

\* descriptors whose shape or strides vector disagrees in length with ndim:
\* the constructors test the three lengths one by one and assume no relation
\* between them
InconsistentBuffers ==
    { b \in { Buffer(0, f, nd, sh, st) :
                f \in {FloatFormat, IntFormat}, nd \in {1, 2},
                sh \in {<<2>>, <<4>>, <<2, 2>>}, st \in {<<4>>, <<8, 4>>} } :
        ~(b.ndim = Len(b.shape) /\ b.ndim = Len(b.strides)) }

Buffers == Rank1Buffers \cup Rank2Buffers \cup OtherRankBuffers \cup InconsistentBuffers

(***************************************************************************)
(* Native objects.                                                         *)
(***************************************************************************)
\* cv::Mat(rows, cols, type, data): a header over user memory with AUTO_STEP;
\* no data is copied, the row step is cols * elemSize and the matrix is
\* flagged continuous
MatHeader(rows, cols, type, ptr) ==
    [kind |-> "mat", dims |-> 2, rows |-> rows, cols |-> cols, type |-> type,
     step |-> cols * ElemSize(type), continuous |-> TRUE,
     data |-> [space |-> "foreign", addr |-> ptr]]

\* cv::Vec<float, n>(temp): cv::Mat's conversion to Vec copies n consecutive
\* floats from temp.data; cv::Vec<T, n> is a Matx<T, n, 1>: n rows, 1 column
VecFromMat(temp, n, m, junk) ==
    [kind |-> "vec", rows |-> n, cols |-> 1,
     val |-> [i \in 1..n |-> Rd(m, temp.data.addr + SizeofFloat * (i - 1), junk)]]

(***************************************************************************)
(* What a call does, as seen from outside: the object it initialised, the  *)
(* error it threw, the descriptor it returned, its effects in program      *)
(* order (log) and the lines it wrote to std::cout (printed).              *)
(***************************************************************************)
\* throw std::runtime_error(msg) in a constructor, before the placement new
Thrown(msg) ==
    [obj |-> NoObj, err |-> msg, out |-> NoDesc, log |-> <<"throw">>, printed |-> <<>>]

\* new (&vec) cv::Vec2f(temp) / new (&mat) cv::Mat(...), then the return
Constructed(o) ==
    [obj |-> o, err |-> NoErr, out |-> NoDesc, log |-> <<"construct", "return">>,
     printed |-> <<>>]

\* return py::buffer_info(...)
Returned(d) ==
    [err |-> NoErr, out |-> d, log |-> <<"return">>, printed |-> <<>>]

\* std::cout << error_msg << std::endl; throw std::runtime_error(error_msg);
PrintedThrown(msg) ==
    [err |-> msg, out |-> NoDesc, log |-> <<"cout", "throw">>, printed |-> <<msg>>]

(***************************************************************************)
(* The messages of the thrown std::runtime_error, by their leading words.  *)
(***************************************************************************)
MsgNdim        == "Buffer ndim is"
MsgStrides     == "strides.size() is"
MsgShapeSize   == "shape.size() is"
MsgShape0      == "shape[0] is"
MsgNotFloat    == "Not given a buffer of type float"
MsgMatFormat   == "Only the cv::Mat types CV_32FC1 and CV_64FC1 are currently supported."
MsgContinuous  == "Only continuous (contiguous) cv::Mat objects are currently supported."
MsgDims        == "Only cv::Mat objects with dims == 2 are currently supported."
MsgChannels    == "Only cv::Mat objects with channels() == 1 are currently supported."
MsgType        == "Only the cv::Mat type CV_32F is currently supported."

(***************************************************************************)
(* Faulty variants of the vector constructor: one that forgets the element *)
(* count, one that tests the shape before the rank.                        *)
(***************************************************************************)
VecInit_NoCountCheck(n, info, m, junk) ==
    IF info.ndim # 1 THEN Thrown(MsgNdim)
    ELSE IF Len(info.strides) # 1 THEN Thrown(MsgStrides)
    ELSE IF Len(info.shape) # 1 THEN Thrown(MsgShapeSize)
    ELSE IF info.format = FloatFormat
         THEN Constructed(VecFromMat(MatHeader(1, n, CV_32FC1, info.ptr), n, m, junk))
         ELSE Thrown(MsgNotFloat)

VecInit_ShapeFirst(n, info, m, junk) ==
    IF Len(info.shape) # 1 THEN Thrown(MsgShapeSize)
    ELSE IF info.shape[1] # n THEN Thrown(MsgShape0)
    ELSE IF info.ndim # 1 THEN Thrown(MsgNdim)
    ELSE IF Len(info.strides) # 1 THEN Thrown(MsgStrides)
    ELSE IF info.format = FloatFormat
         THEN Constructed(VecFromMat(MatHeader(1, n, CV_32FC1, info.ptr), n, m, junk))
         ELSE Thrown(MsgNotFloat)

(***************************************************************************)
(* Vec2f.__init__ and Vec4f.__init__ (n = 2, 4): the checks in program     *)
(* order, then a 1 x n CV_32FC1 header over info.ptr converted to a Vec.   *)
(* The strides are counted but their values are never read.                *)
(***************************************************************************)
VecInit(n, info, m, junk) ==
    IF info.ndim # 1 THEN Thrown(MsgNdim)
    ELSE IF Len(info.strides) # 1 THEN Thrown(MsgStrides)
    ELSE IF Len(info.shape) # 1 THEN Thrown(MsgShapeSize)
    ELSE IF info.shape[1] # n THEN Thrown(MsgShape0)
    ELSE IF info.format = FloatFormat
         THEN Constructed(VecFromMat(MatHeader(1, n, CV_32FC1, info.ptr), n, m, junk))
         ELSE Thrown(MsgNotFloat)

(***************************************************************************)
(* Faulty variant of the vector export: the dimensions in the other order. *)
(***************************************************************************)
VecDefBuffer_Swapped(vec) ==
    Returned([kind |-> "desc", ptr |-> [space |-> "vec", addr |-> 0],
              itemsize |-> SizeofFloat, format |-> FloatFormat, ndim |-> 2,
              shape |-> <<vec.cols, vec.rows>>,
              strides |-> <<SizeofFloat, SizeofFloat>>])

(***************************************************************************)
(* Vec2f / Vec4f def_buffer.                                               *)
(***************************************************************************)
VecDefBuffer(vec) ==
    Returned([kind |-> "desc", ptr |-> [space |-> "vec", addr |-> 0],
              itemsize |-> SizeofFloat, format |-> FloatFormat, ndim |-> 2,
              shape |-> <<vec.rows, vec.cols>>,
              strides |-> <<SizeofFloat, SizeofFloat>>])

(***************************************************************************)
(* Faulty variant of the matrix constructor: rows and columns exchanged.   *)
(***************************************************************************)
MatInit_Transposed(info) ==
    IF info.ndim # 2 THEN Thrown(MsgNdim)
    ELSE IF Len(info.strides) # 2 THEN Thrown(MsgStrides)
    ELSE IF Len(info.shape) # 2 THEN Thrown(MsgShapeSize)
    ELSE IF info.format = FloatFormat
         THEN Constructed(MatHeader(info.shape[2], info.shape[1], CV_32FC1, info.ptr))
    ELSE IF info.format = DoubleFormat
         THEN Constructed(MatHeader(info.shape[2], info.shape[1], CV_64FC1, info.ptr))
    ELSE Thrown(MsgMatFormat)

(***************************************************************************)
(* Mat.__init__.                                                           *)
(***************************************************************************)
MatInit(info) ==
    IF info.ndim # 2 THEN Thrown(MsgNdim)
    ELSE IF Len(info.strides) # 2 THEN Thrown(MsgStrides)
    ELSE IF Len(info.shape) # 2 THEN Thrown(MsgShapeSize)
    ELSE IF info.format = FloatFormat
         THEN Constructed(MatHeader(info.shape[1], info.shape[2], CV_32FC1, info.ptr))
    ELSE IF info.format = DoubleFormat
         THEN Constructed(MatHeader(info.shape[1], info.shape[2], CV_64FC1, info.ptr))
    ELSE Thrown(MsgMatFormat)

(***************************************************************************)
(* Faulty variants of the matrix export.                                   *)
(***************************************************************************)
FloatDescriptor(mat, rowstride) ==
    [kind |-> "desc", ptr |-> mat.data, itemsize |-> SizeofFloat,
     format |-> FloatFormat, ndim |-> mat.dims,
     shape |-> <<mat.rows, mat.cols>>, strides |-> <<rowstride, SizeofFloat>>]

\* the row stride computed from the number of rows
MatDefBuffer_RowStrideByRows(mat) ==
    IF ~mat.continuous THEN PrintedThrown(MsgContinuous)
    ELSE IF mat.dims # 2 THEN PrintedThrown(MsgDims)
    ELSE IF Channels(mat.type) # 1 THEN PrintedThrown(MsgChannels)
    ELSE IF mat.type = CV_32F
         THEN Returned(FloatDescriptor(mat, SizeofFloat * mat.rows))
         ELSE PrintedThrown(MsgType)

\* CV_64F exported as well
MatDefBuffer_ExportsDouble(mat) ==
    IF ~mat.continuous THEN PrintedThrown(MsgContinuous)
    ELSE IF mat.dims # 2 THEN PrintedThrown(MsgDims)
    ELSE IF Channels(mat.type) # 1 THEN PrintedThrown(MsgChannels)
    ELSE IF mat.type = CV_32F
         THEN Returned(FloatDescriptor(mat, SizeofFloat * mat.cols))
    ELSE IF mat.type = CV_64F
         THEN Returned([kind |-> "desc", ptr |-> mat.data, itemsize |-> 8,
                        format |-> DoubleFormat, ndim |-> mat.dims,
                        shape |-> <<mat.rows, mat.cols>>,
                        strides |-> <<8 * mat.cols, 8>>])
    ELSE PrintedThrown(MsgType)

\* the continuity test left out
MatDefBuffer_NoContinuityCheck(mat) ==
    IF mat.dims # 2 THEN PrintedThrown(MsgDims)
    ELSE IF Channels(mat.type) # 1 THEN PrintedThrown(MsgChannels)
    ELSE IF mat.type = CV_32F
         THEN Returned(FloatDescriptor(mat, SizeofFloat * mat.cols))
         ELSE PrintedThrown(MsgType)

\* the type failure thrown without the line on std::cout
MatDefBuffer_SilentTypeFailure(mat) ==
    IF ~mat.continuous THEN PrintedThrown(MsgContinuous)
    ELSE IF mat.dims # 2 THEN PrintedThrown(MsgDims)
    ELSE IF Channels(mat.type) # 1 THEN PrintedThrown(MsgChannels)
    ELSE IF mat.type = CV_32F
         THEN Returned(FloatDescriptor(mat, SizeofFloat * mat.cols))
         ELSE [err |-> MsgType, out |-> NoDesc, log |-> <<"throw">>, printed |-> <<>>]

(***************************************************************************)
(* Mat def_buffer.                                                         *)
(***************************************************************************)
MatDefBuffer(mat) ==
    IF ~mat.continuous THEN PrintedThrown(MsgContinuous)
    ELSE IF mat.dims # 2 THEN PrintedThrown(MsgDims)
    ELSE IF Channels(mat.type) # 1 THEN PrintedThrown(MsgChannels)
    ELSE IF mat.type = CV_32F
         THEN Returned([kind |-> "desc", ptr |-> mat.data,
                        itemsize |-> SizeofFloat, format |-> FloatFormat,
                        ndim |-> mat.dims,
                        shape |-> <<mat.rows, mat.cols>>,
                        strides |-> <<SizeofFloat * mat.cols, SizeofFloat>>])
         ELSE PrintedThrown(MsgType)

(***************************************************************************)
(* Matrices the native library returns (PcaModel::get_mean, draw_sample,   *)
(* Blendshape::deformation, ...): the binding constrains neither their     *)
(* type nor their layout.  A 2-D matrix is a full matrix (pad = 0) or a    *)
(* view of columns of a wider one (pad > 0, the row step is the parent's); *)
(* OpenCV flags it continuous when it has one row or no gap between rows.  *)
(* A matrix of more than two dimensions has rows = cols = -1.              *)
(***************************************************************************)
NativeDim == 2

NativeTypes == { CV_MAKETYPE(d, cn) : d \in {CV_8U, CV_32F, CV_64F}, cn \in {1, 3} }

NativeMats ==
    { [kind |-> "mat", dims |-> 2, rows |-> r, cols |-> c, type |-> t,
       step |-> (c + pad) * ElemSize(t),
       continuous |-> (r = 1 \/ pad = 0),
       data |-> [space |-> "native", addr |-> 0]] :
        r \in 1..NativeDim, c \in 1..NativeDim, t \in NativeTypes, pad \in {0, 1} }
    \cup
    { [kind |-> "mat", dims |-> 3, rows |-> -1, cols |-> -1, type |-> t,
       step |-> 0, continuous |-> cont,
       data |-> [space |-> "native", addr |-> 0]] :
        t \in NativeTypes, cont \in BOOLEAN }

(***************************************************************************)
(* The elements of a native object, in row-major order.  A vector holds    *)
(* them in val[]; a matrix header reads them through data and step.        *)
(***************************************************************************)
OutOfBounds == 0 - 1

Elems(o, m) ==
    IF o.kind = "vec" THEN o.val
    ELSE IF o.kind = "mat" /\ o.dims = 2 /\ o.data.space = "foreign"
    THEN [k \in 1..(o.rows * o.cols) |->
            ElemAt(m, o.data.addr + ((k - 1) \div o.cols) * o.step
                                  + ((k - 1) % o.cols) * ElemSize(o.type),
                   ElemSize(o.type), OutOfBounds)]
    ELSE <<>>

\* the cells of foreign memory that hold the logical elements of a buffer
BufferCells(b) ==
    IF b = NoBuf \/ b.ndim # Len(b.shape) \/ b.ndim # Len(b.strides) \/ b.ndim \notin {1, 2}
    THEN {}
    ELSE LET sh == IF b.ndim = 1 THEN <<1, b.shape[1]>> ELSE b.shape
             st == IF b.ndim = 1 THEN <<0, b.strides[1]>> ELSE b.strides
         IN  { (b.ptr + i * st[1] + j * st[2]) \div 4 + w :
                 i \in 0..(sh[1] - 1), j \in 0..(sh[2] - 1),
                 w \in 0..(b.itemsize \div 4 - 1) }

(***************************************************************************)
(* The fitting bindings: estimate_orthographic_projection_linear and       *)
(* fit_shape_and_pose.  Both convert their arguments and hand them to the  *)
(* native function of the same name.                                       *)
(***************************************************************************)
MaxLandmarks == 2    \* longest sequence of points or identifiers in a call
MaxInt       == 2    \* integer arguments range over -MaxInt..MaxInt

NoArgs == [fn |-> "none"]
NoCall == [kind |-> "none"]

\* an argument with a default: given by the caller, or left out
Omitted   == [given |-> FALSE]
Given(v)  == [given |-> TRUE, value |-> v]
IntArgs   == {Omitted} \cup { Given(v) : v \in (0 - MaxInt)..MaxInt }
WithDefault(a, d) == IF a.given THEN a.value ELSE d

\* py::arg("viewport_height") = 0, py::arg("num_shape_coefficients_to_fit") = -1
DefaultViewportHeight       == 0
DefaultNumShapeCoefficients == -1

\* boost::optional<int>
None    == [some |-> FALSE]
Some(v) == [some |-> TRUE, value |-> v]

\* glm::vec2 / glm::vec4 arguments and their cv::Vec2f / cv::Vec4f conversions
Coords  == {1, 2}
Points2 == { [x |-> a, y |-> b] : a \in Coords, b \in Coords }
Points4 == { [x |-> 1, y |-> 2, z |-> 3, w |-> 4], [x |-> 4, y |-> 3, z |-> 2, w |-> 1] }
Names   == {"a", "b"}

SeqsUpTo(S, n) == UNION { [1..k -> S] : k \in 0..n }

ToVec2f(p) == <<p.x, p.y>>
ToVec4f(p) == <<p.x, p.y, p.z, p.w>>

\* viewport_height == 0 ? boost::none : boost::optional<int>(viewport_height)
ViewportHeightOpt(viewport_height) ==
    IF viewport_height = 0 THEN None ELSE Some(viewport_height)

\* the sentinel taken for every negative number
NumShapeCoefficientsOpt_AnyNegative(num_shape_coefficients_to_fit) ==
    IF num_shape_coefficients_to_fit < 0 THEN None ELSE Some(num_shape_coefficients_to_fit)

\* num_shape_coefficients_to_fit == -1 ? boost::none : boost::optional<int>(...)
NumShapeCoefficientsOpt(num_shape_coefficients_to_fit) ==
    IF num_shape_coefficients_to_fit = -1 THEN None ELSE Some(num_shape_coefficients_to_fit)

EstimateName == "estimate_orthographic_projection_linear"
FitName      == "fit_shape_and_pose"

\* the lambda of estimate_orthographic_projection_linear
EstimateOrthographicProjectionLinear(image_points, model_points, is_viewport_upsidedown, viewport_height) ==
    [call  |-> [kind |-> "called", fn |-> EstimateName,
                image_points |-> [i \in 1..Len(image_points) |-> ToVec2f(image_points[i])],
                model_points |-> [i \in 1..Len(model_points) |-> ToVec4f(model_points[i])],
                is_viewport_upsidedown |-> is_viewport_upsidedown,
                viewport_height |-> ViewportHeightOpt(viewport_height)],
     reads |-> <<>>]

\* What reading landmark_ids[i] with i >= landmark_ids.size() can do: it is
\* undefined behaviour; the call crashes, or goes on with a garbage string.
Undefined ==
    {[crash |-> TRUE, name |-> ""]} \cup { [crash |-> FALSE, name |-> g] : g \in {"", "garbage"} }

\* the lambda of fit_shape_and_pose.  assert(landmarks.size() ==
\* landmark_ids.size()) aborts the process unless the build defines NDEBUG;
\* the loop then reads landmark_ids[i] for every i < landmarks.size().
\* Indices are the C++ ones (from 0).  The arguments the lambda passes on
\* untouched (model, blendshapes, mapper, image size, ...) are left out.
FitShapeAndPose(landmarks, landmark_ids, num_shape_coefficients_to_fit, nd, ub) ==
    IF ~nd /\ Len(landmarks) # Len(landmark_ids)
    THEN [call |-> [kind |-> "aborted"], reads |-> <<>>]
    ELSE IF Len(landmarks) > Len(landmark_ids) /\ ub.crash
    THEN [call |-> [kind |-> "crashed"],
          reads |-> [k \in 1..(Len(landmark_ids) + 1) |-> k - 1]]
    ELSE [call |-> [kind |-> "called", fn |-> FitName,
                    landmark_collection |->
                        [k \in 1..Len(landmarks) |->
                            [name |-> IF k <= Len(landmark_ids)
                                      THEN landmark_ids[k] ELSE ub.name,
                             coordinates |-> ToVec2f(landmarks[k])]],
                    num_shape_coefficients |->
                        NumShapeCoefficientsOpt(num_shape_coefficients_to_fit)],
          reads |-> [k \in 1..Len(landmarks) |-> k - 1]]

(***************************************************************************)
(* The state machine.  A run works on one buffer of the caller, or on the  *)
(* matrices the native library returns (buf = NoBuf).  Each constructor    *)
(* call is handed a fresh, uninitialised object, which stays uninitialised *)
(* (NoObj) when the call throws.                                           *)
(***************************************************************************)
Init ==
    /\ mem = [c \in 0..(MemCells - 1) |-> c + 1]
    /\ buf \in Buffers \cup {NoBuf}
    /\ obj = NoObj
    /\ op = "start"
    /\ err = NoErr
    /\ out = NoDesc
    /\ log = <<>>
    /\ cout = <<>>
    /\ writes = 0
    /\ snap = <<>>
    /\ ndebug = FALSE
    /\ args = NoArgs
    /\ native = NoCall
    /\ reads = <<>>

Construct(name, r) ==
    /\ op' = name
    /\ obj' = r.obj
    /\ err' = r.err
    /\ out' = r.out
    /\ log' = r.log
    /\ cout' = cout \o r.printed
    /\ snap' = Elems(r.obj, mem)
    /\ UNCHANGED <<mem, buf, writes, fitvars>>

Export(name, r) ==
    /\ Len(cout) + Len(r.printed) <= MaxCout
    /\ op' = name
    /\ err' = r.err
    /\ out' = r.out
    /\ log' = r.log
    /\ cout' = cout \o r.printed
    /\ UNCHANGED <<mem, buf, obj, writes, snap, fitvars>>

Vec2f_init ==
    /\ buf # NoBuf
    /\ \E junk \in Junk : Construct("Vec2f.__init__", VecInit(2, buf, mem, junk))

Vec4f_init ==
    /\ buf # NoBuf
    /\ \E junk \in Junk : Construct("Vec4f.__init__", VecInit(4, buf, mem, junk))

Mat_init ==
    /\ buf # NoBuf
    /\ Construct("Mat.__init__", MatInit(buf))

Vec2f_def_buffer ==
    /\ obj.kind = "vec"
    /\ obj.rows = 2
    /\ Export("Vec2f.def_buffer", VecDefBuffer(obj))

Vec4f_def_buffer ==
    /\ obj.kind = "vec"
    /\ obj.rows = 4
    /\ Export("Vec4f.def_buffer", VecDefBuffer(obj))

Mat_def_buffer ==
    /\ obj.kind = "mat"
    /\ Export("Mat.def_buffer", MatDefBuffer(obj))

\* a matrix comes back from the native library, in a run where the caller
\* hands no buffer to the bindings
NativeMat ==
    /\ buf = NoBuf
    /\ \E m \in NativeMats : obj' = m
    /\ buf' = NoBuf
    /\ op' = "native"
    /\ err' = NoErr
    /\ out' = NoDesc
    /\ log' = <<>>
    /\ snap' = <<>>
    /\ UNCHANGED <<mem, cout, writes, fitvars>>

\* the caller writes to its array after a constructor has returned
WriteForeign ==
    /\ obj # NoObj
    /\ buf # NoBuf
    /\ writes < MaxWrites
    /\ \E a \in BufferCells(buf) : mem' = [mem EXCEPT ![a] = 0]
    /\ writes' = writes + 1
    /\ op' = "write"
    /\ err' = NoErr
    /\ out' = NoDesc
    /\ log' = <<>>
    /\ UNCHANGED <<buf, obj, cout, snap, fitvars>>

Next ==
    \/ Vec2f_init
    \/ Vec4f_init
    \/ Mat_init
    \/ Vec2f_def_buffer
    \/ Vec4f_def_buffer
    \/ Mat_def_buffer
    \/ NativeMat
    \/ WriteForeign

Spec == Init /\ [][Next]_vars

(***************************************************************************)
(* The fitting bindings as a state machine of their own: a run is one call *)
(* with its arguments, in one build of the module.                         *)
(***************************************************************************)
EstimateCalls ==
    { [fn |-> EstimateName, image_points |-> ip, model_points |-> mp,
       is_viewport_upsidedown |-> up, viewport_height |-> vh] :
        ip \in SeqsUpTo(Points2, MaxLandmarks), mp \in SeqsUpTo(Points4, MaxLandmarks),
        up \in BOOLEAN, vh \in IntArgs }

FitCalls ==
    { [fn |-> FitName, landmarks |-> lm, landmark_ids |-> ids,
       num_shape_coefficients_to_fit |-> n] :
        lm \in SeqsUpTo(Points2, MaxLandmarks), ids \in SeqsUpTo(Names, MaxLandmarks),
        n \in IntArgs }

InitFit ==
    /\ mem = [c \in 0..(MemCells - 1) |-> c + 1]
    /\ buf = NoBuf
    /\ obj = NoObj
    /\ op = "start"
    /\ err = NoErr
    /\ out = NoDesc
    /\ log = <<>>
    /\ cout = <<>>
    /\ writes = 0
    /\ snap = <<>>
    /\ ndebug \in BOOLEAN
    /\ args \in EstimateCalls \cup FitCalls
    /\ native = NoCall
    /\ reads = <<>>

Fitting(r) ==
    /\ native' = r.call
    /\ reads' = r.reads
    /\ UNCHANGED <<mem, buf, obj, op, err, out, log, cout, writes, snap, ndebug, args>>

Estimate_orthographic_projection_linear ==
    /\ args.fn = EstimateName
    /\ native = NoCall
    /\ Fitting(EstimateOrthographicProjectionLinear(
                   args.image_points, args.model_points, args.is_viewport_upsidedown,
                   WithDefault(args.viewport_height, DefaultViewportHeight)))

Fit_shape_and_pose ==
    /\ args.fn = FitName
    /\ native = NoCall
    /\ \E ub \in Undefined :
          Fitting(FitShapeAndPose(
                      args.landmarks, args.landmark_ids,
                      WithDefault(args.num_shape_coefficients_to_fit,
                                  DefaultNumShapeCoefficients),
                      ndebug, ub))

NextFit ==
    \/ Estimate_orthographic_projection_linear
    \/ Fit_shape_and_pose

SpecFit == InitFit /\ [][NextFit]_vars

(***************************************************************************)
(* What the properties speak about.                                        *)
(***************************************************************************)
\* the failure kinds of the specification's error taxonomy; the code raises
\* them all as std::runtime_error and they differ by message
ShapeErrors  == {MsgNdim, MsgStrides, MsgShapeSize, MsgShape0, MsgDims, MsgChannels}
TypeErrors   == {MsgNotFloat, MsgMatFormat, MsgType}
LayoutErrors == {MsgContinuous}

VecInits   == {"Vec2f.__init__", "Vec4f.__init__"}
VecExports == {"Vec2f.def_buffer", "Vec4f.def_buffer"}
Arity(name) == IF name \in {"Vec2f.__init__", "Vec2f.def_buffer"} THEN 2 ELSE 4

\* a descriptor whose ndim, shape and strides agree in length
WellFormed(b, rank) ==
    b # NoBuf /\ b.ndim = rank /\ Len(b.shape) = rank /\ Len(b.strides) = rank

\* the logical elements of a rank-1 or rank-2 buffer, flattened in row-major
\* order, as the buffer protocol defines them: element (i, j) is at
\* ptr + i * strides[0] + j * strides[1]
BufFlat(b, m) ==
    LET sh == IF b.ndim = 1 THEN <<1, b.shape[1]>> ELSE b.shape
        st == IF b.ndim = 1 THEN <<0, b.strides[1]>> ELSE b.strides
    IN  [k \in 1..(sh[1] * sh[2]) |->
            ElemAt(m, b.ptr + ((k - 1) \div sh[2]) * st[1] + ((k - 1) % sh[2]) * st[2],
                   b.itemsize, OutOfBounds)]

\* the flattened contents a consumer reads through an exported rank-2
\* descriptor d of object o
DescFlat(d, o, m) ==
    [k \in 1..(d.shape[1] * d.shape[2]) |->
        LET off == ((k - 1) \div d.shape[2]) * d.strides[1]
                   + ((k - 1) % d.shape[2]) * d.strides[2]
        IN  IF d.ptr.space = "vec" THEN o.val[off \div SizeofFloat + 1]
            ELSE ElemAt(m, d.ptr.addr + off, d.itemsize, OutOfBounds)]

\* C order: the last axis is dense and rows follow each other without a gap
RowMajorContiguous(b) ==
    WellFormed(b, 2) /\ b.strides = <<b.shape[2] * b.itemsize, b.itemsize>>

(***************************************************************************)
(* C1. For every float32 rank-1 buffer of length N handed to the arity-N   *)
(* constructor, whatever its stride, the vector's elements are the         *)
(* buffer's logical elements in order, and exporting the vector gives      *)
(* back the flattened input.                                               *)
(***************************************************************************)
C1_VecRoundTripAnyStride ==
    /\ (op \in VecInits /\ err = NoErr) => obj.val = BufFlat(buf, mem)
    /\ (op \in VecExports /\ writes = 0) => DescFlat(out, obj, mem) = BufFlat(buf, mem)

(***************************************************************************)
(* C2 (as claimed). Exporting an arity-N vector yields element size 4,     *)
(* format float32, rank 2, shape (1, N), strides (4, 4), over the vector's *)
(* own storage.                                                            *)
(***************************************************************************)
C2_VecExportRowShape ==
    op \in VecExports =>
        /\ err = NoErr
        /\ out.itemsize = 4 /\ out.format = FloatFormat /\ out.ndim = 2
        /\ out.shape = <<1, Arity(op)>>
        /\ out.strides = <<4, 4>>
        /\ out.ptr = [space |-> "vec", addr |-> 0]

(***************************************************************************)
(* C2 (amended). Exporting an arity-N vector yields element size 4, format *)
(* float32, rank 2, shape (N, 1) - N rows by 1 column - and strides (4, 4) *)
(* over the vector's own storage.                                          *)
(***************************************************************************)
C2_VecExportColumnShape ==
    op \in VecExports =>
        /\ err = NoErr
        /\ out.itemsize = 4 /\ out.format = FloatFormat /\ out.ndim = 2
        /\ out.shape = <<Arity(op), 1>>
        /\ out.strides = <<4, 4>>
        /\ out.ptr = [space |-> "vec", addr |-> 0]
        /\ obj.kind = "vec" /\ Len(obj.val) = Arity(op)

C2_Witness ==
    op = "Vec4f.def_buffer" /\ out # NoDesc /\ out.shape = <<4, 1>>

(***************************************************************************)
(* C3. For every contiguous row-major float32 rank-2 buffer of shape       *)
(* (R, C), constructing a Mat from it and then exporting the Mat succeeds  *)
(* with rank 2, shape (R, C), strides (4C, 4) and contents equal to the    *)
(* input, element by element.                                              *)
(***************************************************************************)
C3_MatRoundTrip ==
    (op = "Mat.def_buffer" /\ RowMajorContiguous(buf) /\ buf.format = FloatFormat) =>
        /\ err = NoErr
        /\ out # NoDesc
        /\ out.ndim = 2
        /\ out.shape = buf.shape
        /\ out.strides = <<4 * buf.shape[2], 4>>
        /\ out.itemsize = 4 /\ out.format = FloatFormat
        /\ DescFlat(out, obj, mem) = BufFlat(buf, mem)

\* the scenario of the specification: shape (3, 4), strides (16, 4), 12 values
C3_Witness ==
    /\ op = "Mat.def_buffer"
    /\ buf # NoBuf /\ buf.format = FloatFormat
    /\ buf.shape = <<3, 4>> /\ buf.strides = <<16, 4>>
    /\ writes = 0
    /\ out # NoDesc /\ out.shape = <<3, 4>> /\ out.strides = <<16, 4>>
    /\ DescFlat(out, obj, mem) = <<1, 2, 3, 4, 5, 6, 7, 8, 9, 10, 11, 12>>

(***************************************************************************)
(* C4. A native value constructed from a buffer holds a copy: whatever the *)
(* caller writes to the buffer's memory afterwards, the value's elements   *)
(* stay what they were when the constructor returned.                      *)
(***************************************************************************)
C4_CopyOnConstruct ==
    (obj # NoObj /\ buf # NoBuf) => Elems(obj, mem) = snap

(***************************************************************************)
(* C5. A buffer handed to the arity-N vector constructor whose rank is not *)
(* 1, or whose rank is 1 and whose shape[0] is not N, fails with a         *)
(* ShapeError and no vector is produced; one whose rank, stride count,     *)
(* shape count and element count are right but whose format is not        *)
(* float32 fails with a TypeError and no vector is produced.               *)
(***************************************************************************)
C5_VecInitRejects ==
    op \in VecInits =>
        /\ (buf.ndim # 1 \/ (Len(buf.shape) >= 1 /\ buf.shape[1] # Arity(op))) =>
              (err \in ShapeErrors /\ obj = NoObj /\ log = <<"throw">>)
        /\ (WellFormed(buf, 1) /\ buf.shape[1] = Arity(op) /\ buf.format # FloatFormat) =>
              (err \in TypeErrors /\ obj = NoObj /\ log = <<"throw">>)

\* a rank-1 buffer of two floats handed to the Vec4f constructor
C5_Witness ==
    /\ op = "Vec4f.__init__"
    /\ WellFormed(buf, 1) /\ buf.shape[1] = 2 /\ buf.format = FloatFormat
    /\ err = MsgShape0 /\ obj = NoObj

(***************************************************************************)
(* C6 (as claimed). Constructing a Mat from any valid rank-2 float64       *)
(* buffer succeeds and yields a 64-bit-float matrix, while exporting any   *)
(* Mat whose element type is not 32-bit float always fails with a          *)
(* TypeError and produces no descriptor.                                   *)
(***************************************************************************)
C6_ExportNonFloatIsTypeError ==
    /\ (op = "Mat.__init__" /\ WellFormed(buf, 2) /\ buf.format = DoubleFormat) =>
          (err = NoErr /\ obj.kind = "mat" /\ obj.type = CV_64FC1)
    /\ (op = "Mat.def_buffer" /\ Depth(obj.type) # CV_32F) =>
          (err \in TypeErrors /\ out = NoDesc)

(***************************************************************************)
(* C6 (amended). Constructing a Mat from any valid rank-2 float64 buffer   *)
(* succeeds and yields a 64-bit-float matrix, while exporting any Mat      *)
(* whose element type is not 32-bit float always fails and produces no     *)
(* descriptor; the failure is a TypeError when the matrix is continuous,   *)
(* of rank 2 and single-channel, as every Mat constructed from a float64   *)
(* buffer is, and otherwise that of the export precondition violated       *)
(* first.                                                                  *)
(***************************************************************************)
C6_AsymmetricDoubleSupport ==
    /\ (op = "Mat.__init__" /\ WellFormed(buf, 2) /\ buf.format = DoubleFormat) =>
          (err = NoErr /\ obj.kind = "mat" /\ obj.type = CV_64FC1)
    /\ (op = "Mat.def_buffer" /\ Depth(obj.type) # CV_32F) =>
          /\ err # NoErr
          /\ out = NoDesc
          /\ (obj.continuous /\ obj.dims = 2 /\ Channels(obj.type) = 1) => err \in TypeErrors
          /\ ~obj.continuous => err \in LayoutErrors
          /\ (obj.continuous /\ (obj.dims # 2 \/ Channels(obj.type) # 1)) => err \in ShapeErrors
    /\ (op = "Mat.def_buffer" /\ buf # NoBuf /\ buf.format = DoubleFormat) =>
          err \in TypeErrors

\* a Mat built from a float64 buffer is refused on export for its type
C6_Witness ==
    /\ op = "Mat.def_buffer"
    /\ buf # NoBuf /\ buf.format = DoubleFormat
    /\ obj.type = CV_64FC1
    /\ err = MsgType /\ out = NoDesc

(***************************************************************************)
(* C7 (as claimed). Exporting a Mat whose row stride is greater than cols  *)
(* times the element size always fails with a LayoutError, whatever its    *)
(* channel count and element type; a descriptor is produced only for a     *)
(* continuous, rank-2, single-channel, 32-bit-float matrix.                *)
(***************************************************************************)
RowStrideExceedsRow(mat) ==
    mat.dims = 2 /\ mat.step > mat.cols * ElemSize(mat.type)

C7_PaddedRowsAreLayoutError ==
    op = "Mat.def_buffer" =>
        /\ RowStrideExceedsRow(obj) => (err \in LayoutErrors /\ out = NoDesc)
        /\ out # NoDesc => (obj.continuous /\ obj.dims = 2
                            /\ Channels(obj.type) = 1 /\ obj.type = CV_32F)

(***************************************************************************)
(* C7 (amended). Exporting a Mat that is not continuous - a matrix of more *)
(* than one row whose row stride is greater than cols times the element    *)
(* size - always fails with a LayoutError, whatever its rank, channel      *)
(* count and element type; a one-row matrix is continuous whatever its row *)
(* stride and is not refused for its layout.  A descriptor is produced     *)
(* only for a continuous, rank-2, single-channel, 32-bit-float matrix.     *)
(***************************************************************************)
C7_NonContinuousIsLayoutError ==
    op = "Mat.def_buffer" =>
        /\ ~obj.continuous => (err \in LayoutErrors /\ out = NoDesc)
        /\ (RowStrideExceedsRow(obj) /\ obj.rows > 1) => (err \in LayoutErrors /\ out = NoDesc)
        /\ (RowStrideExceedsRow(obj) /\ obj.rows = 1) => err \notin LayoutErrors
        /\ out # NoDesc => (obj.continuous /\ obj.dims = 2
                            /\ Channels(obj.type) = 1 /\ obj.type = CV_32F)

\* a two-row view with padded rows of 3-channel doubles: refused for its layout
C7_Witness ==
    /\ op = "Mat.def_buffer"
    /\ RowStrideExceedsRow(obj) /\ obj.rows = 2
    /\ obj.type = CV_MAKETYPE(CV_64F, 3)
    /\ err = MsgContinuous /\ out = NoDesc

(***************************************************************************)
(* C8. For every buffer handed to the Mat constructor: rank, stride count  *)
(* or shape count other than 2 fails with a ShapeError; otherwise a format *)
(* that is neither float32 nor float64 fails with a TypeError; every       *)
(* failure is raised before any matrix is constructed.  On success the     *)
(* matrix has shape[0] rows, shape[1] columns, one channel and the         *)
(* buffer's element type.                                                  *)
(***************************************************************************)
C8_MatInitContract ==
    op = "Mat.__init__" =>
        IF ~WellFormed(buf, 2)
        THEN err \in ShapeErrors /\ obj = NoObj /\ log = <<"throw">>
        ELSE IF buf.format \notin {FloatFormat, DoubleFormat}
        THEN err \in TypeErrors /\ obj = NoObj /\ log = <<"throw">>
        ELSE /\ err = NoErr
             /\ obj.kind = "mat"
             /\ obj.dims = 2
             /\ obj.rows = buf.shape[1]
             /\ obj.cols = buf.shape[2]
             /\ Channels(obj.type) = 1
             /\ Depth(obj.type) = (IF buf.format = FloatFormat THEN CV_32F ELSE CV_64F)

\* a 2 x 3 float64 buffer becomes a 2 x 3 CV_64FC1 matrix
C8_Witness ==
    /\ op = "Mat.__init__"
    /\ buf.shape = <<2, 3>> /\ buf.format = DoubleFormat
    /\ obj.kind = "mat" /\ obj.rows = 2 /\ obj.cols = 3 /\ obj.type = CV_64FC1

(***************************************************************************)
(* C9. The preconditions of a conversion are checked in the listed order   *)
(* and the failure reported is that of the first one violated: for a       *)
(* vector constructor rank, stride count, shape count, element count,      *)
(* format; for matrix export continuity, rank, channel count, element      *)
(* type.  A float32 buffer of shape (1, 3) handed to the Vec2f constructor *)
(* reports the rank failure.                                               *)
(***************************************************************************)
\* the message of the first violated precondition, or NoErr
FirstViolated(pre, msgs) ==
    LET bad == { i \in DOMAIN pre : ~pre[i] }
    IN  IF bad = {} THEN NoErr
        ELSE msgs[CHOOSE i \in bad : \A j \in bad : i <= j]

VecPreconditions(n, b) ==
    << b.ndim = 1,
       Len(b.strides) = 1,
       Len(b.shape) = 1,
       Len(b.shape) >= 1 /\ b.shape[1] = n,
       b.format = FloatFormat >>

VecFailures == <<MsgNdim, MsgStrides, MsgShapeSize, MsgShape0, MsgNotFloat>>

ExportPreconditions(mat) ==
    << mat.continuous,
       mat.dims = 2,
       Channels(mat.type) = 1,
       Depth(mat.type) = CV_32F >>

ExportFailures == <<MsgContinuous, MsgDims, MsgChannels, MsgType>>

C9_FirstViolatedReported ==
    /\ op \in VecInits =>
          err = FirstViolated(VecPreconditions(Arity(op), buf), VecFailures)
    /\ op = "Mat.def_buffer" =>
          err = FirstViolated(ExportPreconditions(obj), ExportFailures)
    /\ (op = "Vec2f.__init__" /\ buf.format = FloatFormat /\ buf.shape = <<1, 3>>) =>
          err = MsgNdim

C9_Witness ==
    /\ op = "Vec2f.__init__"
    /\ buf.format = FloatFormat /\ buf.ndim = 2 /\ buf.shape = <<1, 3>>
    /\ err = MsgNdim

(***************************************************************************)
(* C10. A line is written to the diagnostic stream exactly in the failing  *)
(* Mat exports, once per failure and before the error is raised: no        *)
(* constructor failure and no successful conversion writes to it.          *)
(***************************************************************************)
C10_DiagnosticOnlyOnExportFailure ==
    [][ IF op' = "Mat.def_buffer" /\ err' # NoErr
        THEN cout' = Append(cout, err') /\ log' = <<"cout", "throw">>
        ELSE cout' = cout /\ (\A i \in DOMAIN log' : log'[i] # "cout") ]_vars

\* the export of a 3-dimensional matrix has failed and left its line
C10_Witness ==
    /\ op = "Mat.def_buffer"
    /\ err = MsgDims
    /\ log = <<"cout", "throw">>
    /\ cout = <<MsgDims>>

(***************************************************************************)
(* C11. The optional-integer sentinels are mapped exactly.                 *)
(* estimate_orthographic_projection_linear hands "unset" to the native     *)
(* estimator iff viewport_height is 0 (the default) and the given value    *)
(* otherwise; fit_shape_and_pose hands "unset" as the shape-coefficient    *)
(* cap iff num_shape_coefficients_to_fit is -1 (the default) and the given *)
(* value otherwise, 0 and the other negative numbers included.             *)
(***************************************************************************)
C11_SentinelsMappedExactly ==
    /\ (native.kind = "called" /\ native.fn = EstimateName) =>
          LET vh == IF args.viewport_height.given THEN args.viewport_height.value ELSE 0
          IN  /\ (native.viewport_height = [some |-> FALSE]) <=> (vh = 0)
              /\ vh # 0 => native.viewport_height = [some |-> TRUE, value |-> vh]
    /\ (native.kind = "called" /\ native.fn = FitName) =>
          LET n == IF args.num_shape_coefficients_to_fit.given
                   THEN args.num_shape_coefficients_to_fit.value ELSE 0 - 1
          IN  /\ (native.num_shape_coefficients = [some |-> FALSE]) <=> (n = 0 - 1)
              /\ n # 0 - 1 => native.num_shape_coefficients = [some |-> TRUE, value |-> n]

\* a cap of -2 reaches the native fit as the value -2, not as "unset"
C11_Witness ==
    /\ native.kind = "called" /\ native.fn = FitName
    /\ args.num_shape_coefficients_to_fit = Given(0 - 2)
    /\ native.num_shape_coefficients = Some(0 - 2)

(***************************************************************************)
(* C12. In fit_shape_and_pose the landmark collection handed to the native *)
(* fit has len(landmarks) entries, entry i pairing landmark_ids[i] with    *)
(* (landmarks[i].x, landmarks[i].y) in input order; landmark_ids is never  *)
(* read at an index >= len(landmark_ids): a call with sequences of         *)
(* different lengths is rejected by the length assertion before any entry  *)
(* is built.                                                               *)
(***************************************************************************)
C12_LandmarksPairedAndGuarded ==
    (args.fn = FitName /\ native # NoCall) =>
        /\ \A k \in DOMAIN reads : reads[k] < Len(args.landmark_ids)
        /\ Len(args.landmarks) # Len(args.landmark_ids) =>
              (native.kind = "aborted" /\ reads = <<>>)
        /\ Len(args.landmarks) = Len(args.landmark_ids) =>
              /\ native.kind = "called"
              /\ native.landmark_collection =
                    [k \in 1..Len(args.landmarks) |->
                        [name |-> args.landmark_ids[k],
                         coordinates |-> <<args.landmarks[k].x, args.landmarks[k].y>>]]

====
